---------------------------- MODULE Spec2Model ----------------------------
(***************************************************************************)
(* Model of the command profiler of ultralytics_profile (profiler.py):     *)
(* Profiler.profile_command with its classifier, the resolution of a named *)
(* tool to its script, the instrumented (cProfile) run, the opaque         *)
(* (whole-process) run, the normalizer _extract_timing_data and the        *)
(* renderer analyze_performance.                                           *)
(*                                                                         *)
(* Text (tokens, file names, keys, summaries) is a sequence of one-letter  *)
(* strings, so that the code's string operations (endswith, in, split,     *)
(* Path.suffix, Path.stem, join, f-strings) are computed as the code       *)
(* computes them.  Times of samples are in units of 0.0001 s; the wall     *)
(* time of a child process is in seconds.  A quotient a / b is the pair    *)
(* <<a, b>>.                                                               *)
(***************************************************************************)
EXTENDS Integers, Sequences, FiniteSets, TLC

VARIABLES
    pc,           \* position in the call under way
    command,      \* the command given to profile_command
    top_n,        \* the top_n given to analyze_performance
    stats_file,   \* the temporary sample artifact: "none" (never made), "empty", "samples", "garbage", "absent"
    in_fallback,  \* _profile_bash_command was called from inside _profile_python_command's try
    resolution,   \* how the lookup of the tool's script ended
    profile_cmd,  \* the argv built for the instrumented run
    child,        \* argv of the profiled child process as spawned, <<>> if none
    result,       \* what subprocess.run of the profiled child gave: its result or its exception
    start_time,   \* time.time() before the opaque run
    end_time,     \* time.time() after it
    raw,          \* the raw samples at hand (pstats.Stats.stats), in iteration order
    timings,      \* the TimingMap: a dict in insertion order, as a sequence of [key, rec]
    output,       \* the textual summary
    report        \* what analyze_performance printed

vars ==
    <<pc, command, top_n, stats_file, in_fallback, resolution, profile_cmd, child, result,
      start_time, end_time, raw, timings, output, report>>

---------------------------------------------------------------------------
(* Text operations, as Python's str and pathlib compute them. *)

StartsWith(s, p) ==
    Len(p) <= Len(s) /\ SubSeq(s, 1, Len(p)) = p

EndsWith(s, p) ==
    Len(p) <= Len(s) /\ SubSeq(s, Len(s) - Len(p) + 1, Len(s)) = p

\* p in s
Contains(p, s) ==
    \E i \in 1..(Len(s) - Len(p) + 1) : SubSeq(s, i, i + Len(p) - 1) = p

\* the least index >= from where p occurs in s, 0 if none (str.find, 1-based)
Find(s, p, from) ==
    LET hits == {i \in from..(Len(s) - Len(p) + 1) : SubSeq(s, i, i + Len(p) - 1) = p}
    IN  IF hits = {} THEN 0 ELSE CHOOSE i \in hits : \A j \in hits : i <= j

\* the greatest index where the letter c occurs in s, 0 if none (str.rfind, 1-based)
RFind(s, c) ==
    LET hits == {i \in 1..Len(s) : s[i] = c}
    IN  IF hits = {} THEN 0 ELSE CHOOSE i \in hits : \A j \in hits : j <= i

RECURSIVE SplitFrom(_, _, _)
SplitFrom(s, sep, from) ==
    LET i == Find(s, sep, from)
    IN  IF i = 0 THEN <<SubSeq(s, from, Len(s))>>
        ELSE <<SubSeq(s, from, i - 1)>> \o SplitFrom(s, sep, i + Len(sep))

\* s.split(sep)
Split(s, sep) ==
    SplitFrom(s, sep, 1)

RECURSIVE Join(_, _)
\* sep.join(parts)
Join(sep, parts) ==
    IF parts = <<>> THEN <<>>
    ELSE IF Len(parts) = 1 THEN parts[1]
    ELSE parts[1] \o sep \o Join(sep, Tail(parts))

Digit(d) ==
    <<"0", "1", "2", "3", "4", "5", "6", "7", "8", "9">>[d + 1]

RECURSIVE IntStr(_)
\* str(n) of a natural number
IntStr(n) ==
    IF n < 10 THEN <<Digit(n)>> ELSE IntStr(n \div 10) \o <<Digit(n % 10)>>

UpperCase ==
    <<"A","B","C","D","E","F","G","H","I","J","K","L","M","N","O","P","Q","R","S","T","U","V","W","X","Y","Z">>

LowerCase ==
    <<"a","b","c","d","e","f","g","h","i","j","k","l","m","n","o","p","q","r","s","t","u","v","w","x","y","z">>

\* s.lower()
Lower(s) ==
    [i \in 1..Len(s) |->
        IF \E k \in 1..26 : UpperCase[k] = s[i]
        THEN LowerCase[CHOOSE k \in 1..26 : UpperCase[k] = s[i]]
        ELSE s[i]]

\* Path(p).name: the last component
PathName(p) ==
    SubSeq(p, RFind(p, "/") + 1, Len(p))

\* Path(p).suffix: from the last dot of the name, unless that dot starts or ends the name
PathSuffix(p) ==
    LET name == PathName(p)
        i == RFind(name, ".")
    IN  IF 1 < i /\ i < Len(name) THEN SubSeq(name, i, Len(name)) ELSE <<>>

\* Path(p).stem: the name without its suffix
PathStem(p) ==
    LET name == PathName(p)
        i == RFind(name, ".")
    IN  IF 1 < i /\ i < Len(name) THEN SubSeq(name, 1, i - 1) ELSE name

\* repr of a list of str, as "%s" formats it
ReprList(l) ==
    <<"[">> \o Join(<<",", " ">>, [i \in 1..Len(l) |-> <<"'">> \o l[i] \o <<"'">>]) \o <<"]">>

---------------------------------------------------------------------------
(* The texts of the program and of the modelled environment. *)

t_python ==
    <<"p","y","t","h","o","n">>
t_python3 ==
    <<"p","y","t","h","o","n","3">>
t_python39 ==
    <<"p","y","t","h","o","n","3",".","9">>
t_venv_python ==
    <<"/","v","/","p","y","t","h","o","n">>
t_x_py ==
    <<"x",".","p","y">>
t_dot_py ==
    <<".","p","y">>
t_yolo ==
    <<"y","o","l","o">>
t_pip ==
    <<"p","i","p">>
t_pytest ==
    <<"p","y","t","e","s","t">>
t_black ==
    <<"b","l","a","c","k">>
t_flake8 ==
    <<"f","l","a","k","e","8">>
t_ls ==
    <<"l","s">>
t_la ==
    <<"-","l","a">>
t_echo ==
    <<"e","c","h","o">>
t_test ==
    <<"t","e","s","t">>
t_predict ==
    <<"p","r","e","d","i","c","t">>
t_arg ==
    <<"a","r","g">>
t_m ==
    <<"-","m">>
t_cProfile ==
    <<"c","P","r","o","f","i","l","e">>
t_o ==
    <<"-","o">>
t_which ==
    <<"w","h","i","c","h">>
suffix_py ==
    <<".","p","y">>
sys_executable ==
    <<"/","u","s","r","/","b","i","n","/","p","y","t","h","o","n","3">>
stats_file_name ==
    <<"/","t","m","p","/","t",".","s","t","a","t","s">>
bin_dir ==
    <<"/","b","i","n","/">>
line_python ==
    <<"#","!","/","u","s","r","/","b","i","n","/","p","y","t","h","o","n","3","\n">>
line_sh ==
    <<"#","!","/","b","i","n","/","s","h","\n">>
txt_exit_code ==
    <<"E","x","i","t"," ","c","o","d","e",":"," ">>
txt_stdout ==
    <<"\n","S","T","D","O","U","T",":","\n">>
txt_stderr ==
    <<"\n","S","T","D","E","R","R",":","\n">>
txt_error ==
    <<"E","r","r","o","r",":"," ">>
txt_timed_out ==
    <<"C","o","m","m","a","n","d"," ","e","x","e","c","u","t","i","o","n"," ","t","i","m","e","d"," ","o","u","t">>
txt_error_executing ==
    <<"E","r","r","o","r"," ","e","x","e","c","u","t","i","n","g"," ","c","o","m","m","a","n","d",":"," ">>
txt_total_execution ==
    <<":","t","o","t","a","l","_","e","x","e","c","u","t","i","o","n",":","0">>
txt_bash_command ==
    <<"b","a","s","h","_","c","o","m","m","a","n","d">>
msg_enoent ==
    <<"[","E","r","r","n","o"," ","2","]"," ","N","o"," ","s","u","c","h"," ","f","i","l","e"," ","o","r"," ","d","i","r","e","c","t","o","r","y",":"," ">>
msg_eacces ==
    <<"[","E","r","r","n","o"," ","1","3","]"," ","P","e","r","m","i","s","s","i","o","n"," ","d","e","n","i","e","d",":"," ">>
msg_eof ==
    <<"E","O","F"," ","r","e","a","d"," ","w","h","e","r","e"," ","o","b","j","e","c","t"," ","e","x","p","e","c","t","e","d">>
msg_bad_marshal ==
    <<"b","a","d"," ","m","a","r","s","h","a","l"," ","d","a","t","a"," ","(","u","n","k","n","o","w","n"," ","t","y","p","e"," ","c","o","d","e",")">>
msg_timeout_head ==
    <<"C","o","m","m","a","n","d"," ","'">>
msg_timeout_mid ==
    <<"'"," ","t","i","m","e","d"," ","o","u","t"," ","a","f","t","e","r"," ">>
msg_timeout_tail ==
    <<" ","s","e","c","o","n","d","s">>
out_test ==
    <<"t","e","s","t","\n">>
out_42 ==
    <<"4","2","\n">>
err_usage ==
    <<"n","o"," ","s","u","c","h"," ","o","p","t","i","o","n",":"," ","-","c","\n">>
t_c ==
    <<"-","c">>
t_code ==
    <<"p","a","s","s">>
ch_lt ==
    <<"<">>
ch_tilde ==
    <<"~">>
ch_colon ==
    <<":">>
ch_dot ==
    <<".">>
ch_slash ==
    <<"/">>
ch_space ==
    <<" ">>
txt_ellipsis ==
    <<".",".",".">>
txt_ultralytics ==
    <<"u","l","t","r","a","l","y","t","i","c","s">>
txt_ultralytics_dir ==
    <<"u","l","t","r","a","l","y","t","i","c","s","/">>
txt_ultralytics_dot ==
    <<"u","l","t","r","a","l","y","t","i","c","s",".">>
txt_torch ==
    <<"t","o","r","c","h">>
txt_torch_dir ==
    <<"t","o","r","c","h","/">>
txt_torch_dot ==
    <<"t","o","r","c","h",".">>
txt_site_packages ==
    <<"s","i","t","e","-","p","a","c","k","a","g","e","s">>
p_module ==
    <<"<","m","o","d","u","l","e",">">>
p_import ==
    <<"_","_","i","m","p","o","r","t","_","_">>
p_handle_fromlist ==
    <<"_","h","a","n","d","l","e","_","f","r","o","m","l","i","s","t">>
p_get_code ==
    <<"g","e","t","_","c","o","d","e">>
p_find_and_load ==
    <<"_","f","i","n","d","_","a","n","d","_","l","o","a","d">>
p_jit_internal ==
    <<"_","j","i","t","_","i","n","t","e","r","n","a","l">>
p_lazy ==
    <<"l","a","z","y">>
p_dynamo ==
    <<"_","d","y","n","a","m","o">>
p_ops ==
    <<"_","o","p","s">>
p_triton_kernel ==
    <<"t","r","i","t","o","n","_","k","e","r","n","e","l">>
p_importlib ==
    <<"i","m","p","o","r","t","l","i","b">>
p_marshal ==
    <<"m","a","r","s","h","a","l">>
p_compile_bytecode ==
    <<"c","o","m","p","i","l","e","_","b","y","t","e","c","o","d","e">>
p_build_class ==
    <<"_","_","b","u","i","l","d","_","c","l","a","s","s","_","_">>
p_create_dynamic ==
    <<"c","r","e","a","t","e","_","d","y","n","a","m","i","c">>
p_open_code ==
    <<"o","p","e","n","_","c","o","d","e">>
p_genexpr ==
    <<"g","e","n","e","x","p","r">>
k_forward ==
    <<"f","o","r","w","a","r","d">>
k_call ==
    <<"_","_","c","a","l","l","_","_">>
k_conv ==
    <<"c","o","n","v">>
k_relu ==
    <<"r","e","l","u">>
k_pool ==
    <<"p","o","o","l">>
k_norm ==
    <<"n","o","r","m">>
k_activation ==
    <<"a","c","t","i","v","a","t","i","o","n">>
pkg_numpy ==
    <<"n","u","m","p","y">>
pkg_cv2 ==
    <<"c","v","2">>
pkg_PIL ==
    <<"P","I","L">>
pkg_torchvision ==
    <<"t","o","r","c","h","v","i","s","i","o","n">>
f_string ==
    <<"<","s","t","r","i","n","g",">">>
f_builtin ==
    <<"~">>
f_ul_model ==
    <<"/","s","p","/","u","l","t","r","a","l","y","t","i","c","s","/","e","n","g","i","n","e","/","m","o","d","e","l",".","p","y">>
f_ul_tasks ==
    <<"/","s","p","/","u","l","t","r","a","l","y","t","i","c","s","/","n","n","/","t","a","s","k","s",".","p","y">>
f_ul_hub ==
    <<"/","s","p","/","u","l","t","r","a","l","y","t","i","c","s","/","h","u","b",".","p","y">>
f_torch_conv ==
    <<"/","s","i","t","e","-","p","a","c","k","a","g","e","s","/","t","o","r","c","h","/","n","n","/","c","o","n","v",".","p","y">>
f_numpy_core ==
    <<"/","s","p","/","n","u","m","p","y","/","c","o","r","e",".","p","y">>
f_importlib ==
    <<"/","l","i","b","/","i","m","p","o","r","t","l","i","b","/","u","t","i","l",".","p","y">>
f_run_a ==
    <<"/","a","/","r","u","n",".","p","y">>
f_run_b ==
    <<"/","b","/","r","u","n",".","p","y">>
fn_module ==
    <<"<","m","o","d","u","l","e",">">>
fn_exec ==
    <<"<","b","u","i","l","t","-","i","n"," ","m","e","t","h","o","d"," ","e","x","e","c",">">>
fn_predict ==
    <<"p","r","e","d","i","c","t">>
fn_forward ==
    <<"f","o","r","w","a","r","d">>
fn_Conv2d ==
    <<"_","C","o","n","v","_","F","o","r","w","a","r","d">>
fn_extra_repr ==
    <<"e","x","t","r","a","_","r","e","p","r">>
fn_dot ==
    <<"d","o","t">>
fn_main ==
    <<"m","a","i","n">>
fn_load ==
    <<"l","o","a","d">>
fn_find_spec ==
    <<"f","i","n","d","_","s","p","e","c">>

---------------------------------------------------------------------------
(* Bounds of the model. *)

\* the most raw samples in one sample set
MaxSamples == 3

\* the greatest top_n given to the renderer
MaxTopN == 3

---------------------------------------------------------------------------
(* Constants of the program. *)

\* timeout=300 of subprocess.run, in seconds
timeout == 300

\* cumulative_time < 0.001
MinCumTime == 10

\* cumulative_time < 0.005
ExternalMinCumTime == 50

\* len(func_key) <= 60
DisplayWidth == 60

\* func_key[:57]
DisplayCut == 57

\* one second in the unit of the model's times, 0.0001 s
Seconds(n) ==
    n * 10000

---------------------------------------------------------------------------
(* The command classifier. *)

python_tools ==
    {t_yolo, t_pip, t_pytest, t_black, t_flake8}

\* command[0] in ['python', 'python3'] or command[0].endswith('python')
IsDirectPython(cmd) ==
    cmd[1] \in {t_python, t_python3} \/ EndsWith(cmd[1], t_python)

is_python_command_any_py(cmd) ==
    IF cmd = <<>> THEN FALSE
    ELSE IF IsDirectPython(cmd) THEN TRUE
    ELSE IF PathSuffix(cmd[1]) = suffix_py THEN TRUE
    ELSE cmd[1] \in python_tools

is_python_command(cmd) ==
    IF cmd = <<>> THEN FALSE
    ELSE IF IsDirectPython(cmd) THEN TRUE
    ELSE IF Len(cmd) = 1 /\ PathSuffix(cmd[1]) = suffix_py THEN TRUE
    ELSE cmd[1] \in python_tools

---------------------------------------------------------------------------
(* Dicts in insertion order, and Python's stable sort. *)

\* d[k] = v: a new key goes last, a key already there keeps its place
DictSet(d, k, v) ==
    IF \E i \in 1..Len(d) : d[i].key = k
    THEN [i \in 1..Len(d) |-> IF d[i].key = k THEN [key |-> k, rec |-> v] ELSE d[i]]
    ELSE Append(d, [key |-> k, rec |-> v])

\* tuples of integers of one length, compared as Python compares tuples
TupleLess(a, b) ==
    \E i \in 1..Len(a) :
        /\ \A j \in 1..(i - 1) : a[j] = b[j]
        /\ a[i] < b[i]

\* x put into the sorted s behind every element that is not greater
InsertSorted(s, x) ==
    LET greater == {i \in 1..Len(s) : TupleLess(x.k, s[i].k)}
        at == IF greater = {} THEN Len(s) + 1 ELSE CHOOSE i \in greater : \A j \in greater : i <= j
    IN  SubSeq(s, 1, at - 1) \o <<x>> \o SubSeq(s, at, Len(s))

RECURSIVE SortKeyed(_)
\* sorted(...) of a sequence of [item, k], by k: stable
SortKeyed(s) ==
    IF s = <<>> THEN <<>>
    ELSE InsertSorted(SortKeyed(SubSeq(s, 1, Len(s) - 1)), s[Len(s)])

Items(s) ==
    [i \in 1..Len(s) |-> s[i].item]

\* a / b
Quotient(a, b) ==
    <<a, b>>

---------------------------------------------------------------------------
(* The sample normalizer. *)

skip_patterns ==
    {p_module, p_import, p_handle_fromlist, p_get_code, p_find_and_load,
     p_jit_internal, p_lazy, p_dynamo, p_ops, p_triton_kernel,
     p_importlib, p_marshal, p_compile_bytecode, p_build_class,
     p_create_dynamic, p_open_code, p_genexpr}

torch_keywords ==
    {k_forward, k_call, k_conv, k_relu, k_pool, k_norm, k_activation}

\* in the order of the code's list: next(...) takes the first that matches
external_packages ==
    <<pkg_numpy, pkg_cv2, pkg_PIL, pkg_torchvision>>

\* filename.startswith('<') or filename.startswith('~')
IsBuiltin(s) ==
    StartsWith(s.filename, ch_lt) \/ StartsWith(s.filename, ch_tilde)

\* any(pattern in func_name or pattern in filename for pattern in skip_patterns)
MatchesSkipPattern(s) ==
    \E p \in skip_patterns : Contains(p, s.func_name) \/ Contains(p, s.filename)

BelowFloor_builtin_only(s) ==
    StartsWith(s.filename, ch_lt) /\ s.cumulative_time < MinCumTime

\* cumulative_time < 0.001
BelowFloor(s) ==
    s.cumulative_time < MinCumTime

\* f"...:{func_name}:{line_num}"
KeyTail(s) ==
    ch_colon \o s.func_name \o ch_colon \o IntStr(s.line_num)

\* the key of a sample, as a sequence of one key or, where the code says continue, none
SampleKey(s) ==
    IF Contains(txt_ultralytics, s.filename)
    THEN LET last == Split(s.filename, txt_ultralytics_dir)
             parts == Split(last[Len(last)], ch_slash)
         IN  IF Len(parts) > 1
             THEN <<txt_ultralytics_dot \o Join(ch_dot, SubSeq(parts, 1, Len(parts) - 1))
                    \o ch_dot \o PathStem(s.filename) \o KeyTail(s)>>
             ELSE <<txt_ultralytics_dot \o PathStem(s.filename) \o KeyTail(s)>>
    ELSE IF Contains(txt_torch, s.filename) /\ Contains(txt_site_packages, s.filename)
    THEN IF ~ \E kw \in torch_keywords : Contains(kw, Lower(s.func_name))
         THEN <<>>
         ELSE LET last == Split(s.filename, txt_torch_dir)
                  torch_part == Split(last[Len(last)], ch_slash)[1]
              IN  <<txt_torch_dot \o torch_part \o ch_dot \o PathStem(s.filename) \o KeyTail(s)>>
    ELSE IF \E i \in 1..Len(external_packages) : Contains(external_packages[i], s.filename)
    THEN LET first == CHOOSE i \in 1..Len(external_packages) :
                         /\ Contains(external_packages[i], s.filename)
                         /\ \A j \in 1..(i - 1) : ~ Contains(external_packages[j], s.filename)
             pkg_name == external_packages[first]
         IN  IF s.cumulative_time < ExternalMinCumTime
             THEN <<>>
             ELSE <<pkg_name \o ch_dot \o PathStem(s.filename) \o KeyTail(s)>>
    ELSE <<PathStem(s.filename) \o KeyTail(s)>>

\* the record stored under the key
SampleRecord(s) ==
    [cumulative_time |-> s.cumulative_time,
     total_time      |-> s.total_time,
     call_count      |-> s.call_count,
     avg_time        |-> IF s.call_count > 0 THEN Quotient(s.cumulative_time, s.call_count)
                         ELSE Quotient(0, 1),
     filename        |-> s.filename,
     is_ultralytics  |-> Contains(txt_ultralytics, s.filename)]

\* one pass of the loop: the entry a sample adds, as a sequence of one entry or none
SampleEntry(s) ==
    IF IsBuiltin(s) THEN <<>>
    ELSE IF MatchesSkipPattern(s) THEN <<>>
    ELSE IF BelowFloor(s) THEN <<>>
    ELSE LET key == SampleKey(s)
         IN  IF key = <<>> THEN <<>> ELSE <<[key |-> key[1], rec |-> SampleRecord(s)]>>

RECURSIVE CollectTimings(_)
\* the dict the loop over stats.stats.items() builds
CollectTimings(samples) ==
    IF samples = <<>> THEN <<>>
    ELSE LET before == CollectTimings(SubSeq(samples, 1, Len(samples) - 1))
             entry == SampleEntry(samples[Len(samples)])
         IN  IF entry = <<>> THEN before ELSE DictSet(before, entry[1].key, entry[1].rec)

\* x[1].get("is_ultralytics", False)
IsUltralytics(rec) ==
    IF "is_ultralytics" \in DOMAIN rec THEN rec.is_ultralytics ELSE FALSE

\* key=lambda x: (not x[1].get("is_ultralytics", False), -x[1]["cumulative_time"])
PrioritySortKey(e) ==
    <<IF IsUltralytics(e.rec) THEN 0 ELSE 1, 0 - e.rec.cumulative_time>>

\* dict(sorted(timings.items(), key=...))
SortTimings(t) ==
    Items(SortKeyed([i \in 1..Len(t) |-> [item |-> t[i], k |-> PrioritySortKey(t[i])]]))

extract_timing_data(samples) ==
    SortTimings(CollectTimings(samples))

---------------------------------------------------------------------------
(* The report renderer. *)

\* func_key if len(func_key) <= 60 else func_key[:57] + "..."
DisplayKey(func_key) ==
    IF Len(func_key) <= DisplayWidth THEN func_key
    ELSE SubSeq(func_key, 1, DisplayCut) \o txt_ellipsis

\* for i, (func_key, data) in enumerate(timings.items()): if i >= top_n: break
CumulativeView(t, n) ==
    [i \in 1..(IF Len(t) < n THEN Len(t) ELSE n) |->
        [key             |-> DisplayKey(t[i].key),
         cumulative_time |-> t[i].rec.cumulative_time,
         total_time      |-> t[i].rec.total_time,
         call_count      |-> t[i].rec.call_count,
         avg_time        |-> t[i].rec.avg_time]]

\* sorted(timings.items(), key=lambda x: x[1][field], reverse=True)[:top_n]
TopBy(t, field, n) ==
    LET s == Items(SortKeyed([i \in 1..Len(t) |-> [item |-> t[i], k |-> <<0 - t[i].rec[field]>>]]))
    IN  SubSeq(s, 1, IF Len(s) < n THEN Len(s) ELSE n)

MostCalledView(t, n) ==
    LET s == TopBy(t, "call_count", n)
    IN  [i \in 1..Len(s) |->
            [key        |-> DisplayKey(s[i].key),
             call_count |-> s[i].rec.call_count,
             total_time |-> s[i].rec.total_time,
             avg_time   |-> s[i].rec.avg_time]]

SelfTimeView(t, n) ==
    LET s == TopBy(t, "total_time", n)
    IN  [i \in 1..Len(s) |->
            [key             |-> DisplayKey(s[i].key),
             total_time      |-> s[i].rec.total_time,
             cumulative_time |-> s[i].rec.cumulative_time,
             call_count      |-> s[i].rec.call_count,
             self_percent    |-> IF s[i].rec.cumulative_time > 0
                                 THEN Quotient(s[i].rec.total_time * 100, s[i].rec.cumulative_time)
                                 ELSE Quotient(0, 1)]]

\* what analyze_performance prints
Report(t, out, n) ==
    IF t = <<>>
    THEN [summary |-> out, no_data |-> TRUE, cumulative |-> <<>>, most_called |-> <<>>, by_self_time |-> <<>>]
    ELSE [summary      |-> out,
          no_data      |-> FALSE,
          cumulative   |-> CumulativeView(t, n),
          most_called  |-> MostCalledView(t, n),
          by_self_time |-> SelfTimeView(t, n)]

---------------------------------------------------------------------------
(* The inputs and the environment. *)

Commands ==
    {<<t_python, t_x_py>>, <<t_python3, t_x_py>>, <<t_venv_python, t_x_py>>,
     <<t_python, t_c, t_code>>, <<t_python39, t_x_py>>,
     <<t_x_py>>, <<t_x_py, t_arg>>, <<t_dot_py>>,
     <<t_yolo, t_predict>>, <<t_pip>>, <<t_pytest>>, <<t_black>>, <<t_flake8>>,
     <<t_ls, t_la>>, <<t_echo, t_test>>}

\* the first line of the file `which` names
FirstLines ==
    {line_python, line_sh, <<>>}

NoResult ==
    [kind |-> "none", returncode |-> 0, stdout |-> <<>>, stderr |-> <<>>, msg |-> <<>>]

\* a child that ran to its end: subprocess.CompletedProcess
Completed ==
    {[kind |-> "completed", returncode |-> 0, stdout |-> out_test, stderr |-> <<>>, msg |-> <<>>],
     [kind |-> "completed", returncode |-> 0, stdout |-> out_42, stderr |-> <<>>, msg |-> <<>>],
     [kind |-> "completed", returncode |-> 2, stdout |-> <<>>, stderr |-> err_usage, msg |-> <<>>]}

\* str(e) of subprocess.TimeoutExpired
TimeoutExpired(argv) ==
    [kind |-> "TimeoutExpired", returncode |-> 0, stdout |-> <<>>, stderr |-> <<>>,
     msg |-> msg_timeout_head \o ReprList(argv) \o msg_timeout_mid \o IntStr(timeout) \o msg_timeout_tail]

\* str(e) of the OSError of a child that could not be spawned
SpawnErrors(argv) ==
    {[kind |-> "OSError", returncode |-> 0, stdout |-> <<>>, stderr |-> <<>>,
      msg |-> m \o <<"'">> \o argv[1] \o <<"'">>] : m \in {msg_enoent, msg_eacces}}

\* how long the child runs, in the unit of the model's times
Durations ==
    {0, Seconds(1), Seconds(timeout), Seconds(timeout) + 1}

\* time.time() as the opaque run starts, in the unit of the model's times
Clock ==
    {0, Seconds(1)}

Sample(f, l, n, cc, tt, ct) ==
    [filename |-> f, line_num |-> l, func_name |-> n,
     call_count |-> cc, total_time |-> tt, cumulative_time |-> ct]

\* raw samples, one per call site (filename, line_num, func_name)
SampleUniverse ==
    {Sample(f_string, 1, fn_module, 1, 10, 100),
     Sample(f_ul_model, 10, fn_predict, 2, 20, 100),
     Sample(f_ul_tasks, 20, fn_forward, 4, 50, 50),
     Sample(f_ul_hub, 5, fn_load, 1, 5, 5),
     Sample(f_torch_conv, 30, fn_Conv2d, 8, 100, 200),
     Sample(f_torch_conv, 40, fn_extra_repr, 1, 10, 10),
     Sample(f_numpy_core, 5, fn_dot, 0, 10, 10),
     Sample(f_numpy_core, 6, fn_dot, 3, 40, 50),
     Sample(f_run_a, 3, fn_main, 1, 20, 200),
     Sample(f_run_b, 3, fn_main, 1, 10, 10),
     Sample(f_run_a, 1, fn_module, 1, 1, 300)}

Range(s) ==
    {s[i] : i \in 1..Len(s)}

RECURSIVE SeqsUpTo(_, _)
\* the sequences without repetition of at most n elements of S
SeqsUpTo(S, n) ==
    IF n = 0 THEN {<<>>}
    ELSE LET shorter == SeqsUpTo(S, n - 1)
         IN  shorter \cup UNION {{Append(s, x) : x \in S \ Range(s)} :
                                     s \in {t \in shorter : Len(t) = n - 1}}

\* the sample sets a profiled child may leave: stats.stats in iteration order
RawStats ==
    SeqsUpTo(SampleUniverse, MaxSamples)

\* the sample sets the profiled child of a whole run leaves: those of at most two samples
RunSamples ==
    {s \in RawStats : Len(s) <= 2}

---------------------------------------------------------------------------
(* Profiler.profile_command and what it calls, step by step. *)

TypeOK ==
    /\ pc \in {"profile_command", "_profile_python_command", "which", "readline", "run",
               "load_stats", "finally", "_profile_bash_command", "returned", "reported",
               "raised", "_extract_timing_data", "extracted", "analyze_performance"}
    /\ command \in Commands \cup {<<>>}
    /\ top_n \in 0..(MaxTopN + 1)
    /\ stats_file \in {"none", "empty", "samples", "garbage", "absent"}
    /\ in_fallback \in BOOLEAN
    /\ resolution \in {"none", "direct", "resolved", "not_found", "which_raised",
                       "unreadable", "no_marker"}

Init ==
    /\ pc = "profile_command"
    /\ command \in Commands
    /\ top_n = 0
    /\ stats_file = "none"
    /\ in_fallback = FALSE
    /\ resolution = "none"
    /\ profile_cmd = <<>>
    /\ child = <<>>
    /\ result = NoResult
    /\ start_time = 0
    /\ end_time = 0
    /\ raw = <<>>
    /\ timings = <<>>
    /\ output = <<>>
    /\ report = <<>>

\* profile_command: the dispatch on _is_python_command
ProfileCommand ==
    /\ pc = "profile_command"
    /\ pc' = IF is_python_command(command) THEN "_profile_python_command"
             ELSE "_profile_bash_command"
    /\ UNCHANGED <<command, top_n, stats_file, in_fallback, resolution, profile_cmd, child,
                   result, raw, timings, output, report, start_time, end_time>>

\* [interpreter, '-m', 'cProfile', '-o', stats_file] + rest
InstrumentedArgv(interpreter, rest) ==
    <<interpreter, t_m, t_cProfile, t_o, stats_file_name>> \o rest

\* the temporary file is made, then the try block is entered and the command looked at
CreateStatsFile ==
    /\ pc = "_profile_python_command"
    /\ stats_file' = "empty"
    /\ IF IsDirectPython(command)
       THEN /\ profile_cmd' = InstrumentedArgv(command[1], Tail(command))
            /\ resolution' = "direct"
            /\ pc' = "run"
       ELSE /\ pc' = "which"
            /\ UNCHANGED <<profile_cmd, resolution>>
    /\ UNCHANGED <<command, top_n, in_fallback, child, result, raw, timings, output, report,
                   start_time, end_time>>

\* return self._profile_bash_command(command), from inside the try block
FallBack(why) ==
    /\ resolution' = why
    /\ in_fallback' = TRUE
    /\ pc' = "_profile_bash_command"
    /\ UNCHANGED <<command, top_n, stats_file, profile_cmd, child, result, raw, timings,
                   output, report, start_time, end_time>>

\* subprocess.run(['which', command[0]]) returns 0
WhichFound ==
    /\ pc = "which"
    /\ pc' = "readline"
    /\ UNCHANGED <<command, top_n, stats_file, in_fallback, resolution, profile_cmd, child,
                   result, raw, timings, output, report, start_time, end_time>>

\* which returns non-zero: the tool is not on the search path
WhichNotFound ==
    /\ pc = "which"
    /\ FallBack("not_found")

\* an exception reaches the handler of the outer try: output and timings are the error's
OuterExcept(msg) ==
    /\ output' = txt_error \o msg
    /\ timings' = <<>>
    /\ pc' = "finally"

WhichRaised_outer ==
    /\ pc = "which"
    /\ resolution' = "which_raised"
    /\ OuterExcept(msg_enoent \o <<"'">> \o t_which \o <<"'">>)
    /\ UNCHANGED <<command, top_n, stats_file, in_fallback, profile_cmd, child, result, raw,
                   report, start_time, end_time>>

\* subprocess.run(['which', ...]) raises: except Exception of the inner try
WhichRaised ==
    /\ pc = "which"
    /\ FallBack("which_raised")

\* script_path = which_result.stdout.strip()
ScriptPath(cmd) ==
    bin_dir \o cmd[1]

\* the script's first line is read: 'python' in first_line, or not
ReadFirstLine ==
    /\ pc = "readline"
    /\ \E first_line \in FirstLines :
          IF Contains(t_python, first_line)
          THEN /\ profile_cmd' = InstrumentedArgv(sys_executable, <<ScriptPath(command)>> \o Tail(command))
               /\ resolution' = "resolved"
               /\ pc' = "run"
               /\ UNCHANGED <<command, top_n, stats_file, in_fallback, child, result, raw, timings,
                   output, report, start_time, end_time>>
          ELSE FallBack("no_marker")

\* open() or readline() raises: the file cannot be read or decoded
ReadRaised ==
    /\ pc = "readline"
    /\ FallBack("unreadable")

\* f"Exit code: {result.returncode}\nSTDOUT:\n{result.stdout}\nSTDERR:\n{result.stderr}"
ExitText(r) ==
    txt_exit_code \o IntStr(r.returncode) \o txt_stdout \o r.stdout \o txt_stderr \o r.stderr

\* the instrumented child runs to its end; the samples are where it left them
RunCompleted ==
    /\ pc = "run"
    /\ \E r \in Completed, left \in {"samples", "empty", "garbage", "absent"} :
          /\ result' = r
          /\ stats_file' = left
          /\ IF left = "samples" THEN raw' \in RunSamples ELSE raw' = <<>>
          /\ output' = ExitText(r)
    /\ child' = profile_cmd
    /\ pc' = "load_stats"
    /\ UNCHANGED <<command, top_n, in_fallback, resolution, profile_cmd, timings, report,
                   start_time, end_time>>

\* the instrumented child runs past the timeout: TimeoutExpired, caught by except Exception
RunTimedOut ==
    /\ pc = "run"
    /\ \E d \in Durations : d > Seconds(timeout)
    /\ result' = TimeoutExpired(profile_cmd)
    /\ child' = profile_cmd
    /\ stats_file' \in {"empty", "garbage"}
    /\ OuterExcept(result'.msg)
    /\ UNCHANGED <<command, top_n, in_fallback, resolution, profile_cmd, raw, report,
                   start_time, end_time>>

\* the instrumented child cannot be spawned
RunSpawnFailed ==
    /\ pc = "run"
    /\ result' \in SpawnErrors(profile_cmd)
    /\ OuterExcept(result'.msg)
    /\ UNCHANGED <<command, top_n, stats_file, in_fallback, resolution, profile_cmd, child,
                   raw, report, start_time, end_time>>

\* if Path(stats_file).exists(): pstats.Stats(stats_file), _extract_timing_data; else {}
LoadStats ==
    /\ pc = "load_stats"
    /\ IF stats_file = "samples"
       THEN /\ timings' = extract_timing_data(raw)
            /\ pc' = "finally"
            /\ UNCHANGED output
       ELSE IF stats_file = "absent"
       THEN /\ timings' = <<>>
            /\ pc' = "finally"
            /\ UNCHANGED output
       ELSE OuterExcept(IF stats_file = "empty" THEN msg_eof ELSE msg_bad_marshal)
    /\ UNCHANGED <<command, top_n, stats_file, in_fallback, resolution, profile_cmd, child,
                   result, raw, report, start_time, end_time>>

Finally_keep ==
    /\ pc = "finally"
    /\ pc' = "returned"
    /\ UNCHANGED <<command, top_n, stats_file, in_fallback, resolution, profile_cmd, child,
                   result, raw, timings, output, report, start_time, end_time>>

\* finally: if Path(stats_file).exists(): Path(stats_file).unlink(); then return
Finally ==
    /\ pc = "finally"
    /\ stats_file' = IF stats_file \in {"empty", "samples", "garbage"} THEN "absent" ELSE stats_file
    /\ pc' = "returned"
    /\ UNCHANGED <<command, top_n, in_fallback, resolution, profile_cmd, child, result, raw,
                   timings, output, report, start_time, end_time>>

\* the return of _profile_bash_command: to the finally of the caller, or to the caller
BashReturn ==
    pc' = IF in_fallback THEN "finally" ELSE "returned"

\* the one entry of the opaque run: f"{' '.join(command)}:total_execution:0"
BashTimings_twice(cmd, t0, t1) ==
    <<[key |-> Join(ch_space, cmd) \o txt_total_execution,
       rec |-> [cumulative_time |-> t1 - t0,
                total_time      |-> t1 - t0,
                call_count      |-> 2,
                avg_time        |-> Quotient(t1 - t0, 2),
                filename        |-> txt_bash_command]]>>

BashTimings(cmd, t0, t1) ==
    <<[key |-> Join(ch_space, cmd) \o txt_total_execution,
       rec |-> [cumulative_time |-> t1 - t0,
                total_time      |-> t1 - t0,
                call_count      |-> 1,
                avg_time        |-> Quotient(t1 - t0, 1),
                filename        |-> txt_bash_command]]>>

\* the child of the opaque run runs to its end
BashCompleted ==
    /\ pc = "_profile_bash_command"
    /\ \E r \in Completed, now \in Clock, d \in Durations :
          /\ d <= Seconds(timeout)
          /\ start_time' = now
          /\ end_time' = now + d
          /\ result' = r
          /\ output' = ExitText(r)
          /\ timings' = BashTimings(command, start_time', end_time')
    /\ child' = command
    /\ BashReturn
    /\ UNCHANGED <<command, top_n, stats_file, in_fallback, resolution, profile_cmd, raw, report>>

\* except subprocess.TimeoutExpired
BashTimedOut ==
    /\ pc = "_profile_bash_command"
    /\ \E d \in Durations : d > Seconds(timeout)
    /\ start_time' \in Clock
    /\ result' = TimeoutExpired(command)
    /\ output' = txt_timed_out
    /\ timings' = <<>>
    /\ child' = command
    /\ BashReturn
    /\ UNCHANGED <<command, top_n, stats_file, in_fallback, resolution, profile_cmd, end_time,
                   raw, report>>

BashSpawnFailed_unhandled ==
    /\ pc = "_profile_bash_command"
    /\ start_time' \in Clock
    /\ result' \in SpawnErrors(command)
    /\ pc' = "raised"
    /\ UNCHANGED <<command, top_n, stats_file, in_fallback, resolution, profile_cmd, child,
                   end_time, raw, timings, output, report>>

\* except Exception as e: the child cannot be spawned
BashSpawnFailed ==
    /\ pc = "_profile_bash_command"
    /\ start_time' \in Clock
    /\ result' \in SpawnErrors(command)
    /\ output' = txt_error_executing \o result'.msg
    /\ timings' = <<>>
    /\ BashReturn
    /\ UNCHANGED <<command, top_n, stats_file, in_fallback, resolution, profile_cmd, child,
                   end_time, raw, report>>

\* the module's profile_command: analyze_performance(timings, output, top_n) on what came back
AnalyzePerformance ==
    /\ pc = "returned"
    /\ top_n' \in 1..MaxTopN
    /\ report' = Report(timings, output, top_n')
    /\ pc' = "reported"
    /\ UNCHANGED <<command, stats_file, in_fallback, resolution, profile_cmd, child, result,
                   raw, timings, output, start_time, end_time>>

Next ==
    \/ ProfileCommand
    \/ CreateStatsFile
    \/ WhichFound
    \/ WhichNotFound
    \/ WhichRaised
    \/ ReadFirstLine
    \/ ReadRaised
    \/ RunCompleted
    \/ RunTimedOut
    \/ RunSpawnFailed
    \/ LoadStats
    \/ Finally
    \/ BashCompleted
    \/ BashTimedOut
    \/ BashSpawnFailed
    \/ AnalyzePerformance

Spec ==
    Init /\ [][Next]_vars

---------------------------------------------------------------------------
(* The normalizer on its own: _extract_timing_data on any raw sample set. *)

InitNormalize ==
    /\ pc = "_extract_timing_data"
    /\ raw \in RawStats
    /\ command = <<>>
    /\ top_n = 0
    /\ stats_file = "none"
    /\ in_fallback = FALSE
    /\ resolution = "none"
    /\ profile_cmd = <<>>
    /\ child = <<>>
    /\ result = NoResult
    /\ start_time = 0
    /\ end_time = 0
    /\ timings = <<>>
    /\ output = <<>>
    /\ report = <<>>

\* timings = self._extract_timing_data(stats)
ExtractTimingData ==
    /\ pc = "_extract_timing_data"
    /\ timings' = extract_timing_data(raw)
    /\ pc' = "extracted"
    /\ UNCHANGED <<command, top_n, stats_file, in_fallback, resolution, profile_cmd, child,
                   result, start_time, end_time, raw, output, report>>

NextNormalize ==
    ExtractTimingData

SpecNormalize ==
    InitNormalize /\ [][NextNormalize]_vars

---------------------------------------------------------------------------
(* The renderer on its own: Profiler.analyze_performance on a caller's TimingMap. *)

\* the entries the normalizer makes of the samples
EntryUniverse ==
    {SampleEntry(s)[1] : s \in {u \in SampleUniverse : SampleEntry(u) # <<>>}}

\* the dicts of at most MaxSamples of these entries, in any insertion order
TimingMaps ==
    {t \in SeqsUpTo(EntryUniverse, MaxSamples) :
        \A i, j \in 1..Len(t) : t[i].key = t[j].key => i = j}

InitRender ==
    /\ pc = "analyze_performance"
    /\ timings \in TimingMaps
    /\ top_n \in 1..MaxTopN
    /\ output \in {ExitText(r) : r \in Completed}
    /\ command = <<>>
    /\ stats_file = "none"
    /\ in_fallback = FALSE
    /\ resolution = "none"
    /\ profile_cmd = <<>>
    /\ child = <<>>
    /\ result = NoResult
    /\ start_time = 0
    /\ end_time = 0
    /\ raw = <<>>
    /\ report = <<>>

\* profiler.analyze_performance(timings, output, top_n)
AnalyzePerformanceCall ==
    /\ pc = "analyze_performance"
    /\ report' = Report(timings, output, top_n)
    /\ pc' = "reported"
    /\ UNCHANGED <<command, top_n, stats_file, in_fallback, resolution, profile_cmd, child,
                   result, start_time, end_time, raw, timings, output>>

NextRender ==
    AnalyzePerformanceCall

SpecRender ==
    InitRender /\ [][NextRender]_vars

---------------------------------------------------------------------------
(* Properties of the profiler. *)

\* the classification the design names, by its precedence
Classify(cmd) ==
    IF cmd[1] = t_python \/ cmd[1] = t_python3 \/ EndsWith(cmd[1], t_python)
    THEN "DirectInterpreter"
    ELSE IF Len(cmd) = 1 /\ PathSuffix(cmd[1]) = suffix_py
    THEN "ExplicitScript"
    ELSE IF cmd[1] \in {t_yolo, t_pip, t_pytest, t_black, t_flake8}
    THEN "KnownManagedTool"
    ELSE "Opaque"

\* _profile_python_command was entered
TookPythonPath ==
    pc = "_profile_python_command" \/ stats_file # "none"

\* profile_command has come back to its caller
Returned ==
    pc \in {"returned", "reported"}

\* a line of the text starts with Exit code:
HasExitCodeLine(text) ==
    StartsWith(text, txt_exit_code) \/ Contains(<<"\n">> \o txt_exit_code, text)

\* the profiled child was spawned as the command itself: the opaque strategy
RanOpaque ==
    child = command

\* the profiled child was spawned under cProfile: the instrumented strategy
RanInstrumented ==
    Len(child) >= 5 /\ SubSeq(child, 2, 5) = <<t_m, t_cProfile, t_o, stats_file_name>>

\* the texts _profile_bash_command can return for what subprocess.run gave it
OpaqueSummary ==
    IF result.kind = "completed" THEN ExitText(result)
    ELSE IF result.kind = "TimeoutExpired" THEN txt_timed_out
    ELSE txt_error_executing \o result.msg

DistinctKeys(t) ==
    \A i, j \in 1..Len(t) : t[i].key = t[j].key => i = j

C2_ClassificationPrecedence ==
    /\ pc # "profile_command" => (TookPythonPath <=> Classify(command) # "Opaque")
    /\ pc \notin {"profile_command", "_profile_python_command"} =>
          (resolution = "direct" <=> Classify(command) = "DirectInterpreter")
    /\ (pc # "profile_command" /\ command \in {<<t_x_py, t_arg>>, <<t_ls, t_la>>}) => ~ TookPythonPath
    /\ (pc # "profile_command" /\ command \in {<<t_yolo, t_predict>>, <<t_x_py>>}) =>
          TookPythonPath /\ resolution # "direct"
    /\ (pc # "profile_command" /\ command \in {<<t_python, t_x_py>>, <<t_python3, t_x_py>>}) =>
          TookPythonPath

C2_Witness ==
    /\ pc = "_profile_bash_command"
    /\ ~ in_fallback
    /\ command = <<t_x_py, t_arg>>

C4_TimeoutMessage ==
    (Returned /\ result.kind = "TimeoutExpired") =>
        /\ output = txt_timed_out
        /\ timings = <<>>

\* C5: when _profile_python_command has returned the artifact it made is gone, on every
\* path; a command run on the opaque path alone never has an artifact.
C5_ArtifactRemoved ==
    /\ Returned => stats_file \in {"none", "absent"}
    /\ (Returned /\ resolution # "none") => stats_file = "absent"
    /\ (pc \in {"_profile_bash_command", "returned", "reported"} /\ resolution = "none") =>
          stats_file = "none"

C5_Witness ==
    /\ pc = "returned"
    /\ in_fallback
    /\ resolution = "no_marker"
    /\ stats_file = "absent"

\* C6 as stated: when the instrumented child ran to its end and the artifact cannot be
\* loaded, the TimingMap is empty and the summary still has the child's exit code,
\* standard output and standard error.
C6_SummaryKeptOnLoadFailure ==
    (pc = "finally" /\ RanInstrumented /\ result.kind = "completed"
        /\ stats_file \in {"empty", "garbage"}) =>
        /\ timings = <<>>
        /\ output = ExitText(result)

\* C7: for a command that is no direct interpreter invocation, every failure of the
\* resolution (not on the search path, lookup raising, file unreadable, no interpreter
\* marker) leads to the whole-process run of the command, and what comes back is what that
\* run returned: never the error outcome of the instrumented path, never an exception.
C7_ResolutionFallsBack ==
    /\ pc # "raised"
    /\ resolution \in {"not_found", "which_raised", "unreadable", "no_marker"} =>
          /\ in_fallback
          /\ pc \in {"_profile_bash_command", "finally", "returned", "reported"}
          /\ pc # "_profile_bash_command" =>
                /\ output = OpaqueSummary
                /\ ~ StartsWith(output, txt_error)
                /\ child \in {command, <<>>}
                /\ result.kind = "completed" => timings = BashTimings(command, start_time, end_time)
                /\ result.kind # "completed" => timings = <<>>

C7_Witness ==
    /\ pc = "returned"
    /\ resolution = "which_raised"
    /\ result.kind = "completed"
    /\ Len(timings) = 1

\* C8 as stated: a command classified ExplicitScript is always run under call-graph
\* instrumentation, never under plain whole-process timing.
C8_ExplicitScriptInstrumented ==
    (Classify(command) = "ExplicitScript" /\ child # <<>>) => RanInstrumented /\ ~ RanOpaque


EntryOfRow(t, row) ==
    CHOOSE e \in Range(t) : DisplayKey(e.key) = row.key

\* e comes before f in the order of the cumulative-time view
RanksBefore(e, f) ==
    \/ IsUltralytics(e.rec) /\ ~ IsUltralytics(f.rec)
    \/ /\ IsUltralytics(e.rec) = IsUltralytics(f.rec)
       /\ e.rec.cumulative_time > f.rec.cumulative_time

\* C10 as stated: for every TimingMap given to the renderer, whatever its insertion order,
\* the cumulative-time view lists at most top_n entries, the primary-package entries before
\* all others and each tier by cumulative time descending, and it is the head of the map so
\* ordered: no entry left out ranks before an entry shown.
C10_CumulativeViewOrdered ==
    pc = "reported" =>
        LET view == report.cumulative
            shown == {EntryOfRow(timings, view[i]) : i \in 1..Len(view)}
        IN  /\ Len(view) = IF Len(timings) < top_n THEN Len(timings) ELSE top_n
            /\ \A i, j \in 1..Len(view) :
                  i < j => ~ RanksBefore(EntryOfRow(timings, view[j]), EntryOfRow(timings, view[i]))
            /\ \A e \in Range(timings) \ shown : \A f \in shown : ~ RanksBefore(e, f)


\* the samples of the raw set that pass every filter of the normalizer
Retained ==
    {i \in 1..Len(raw) : SampleEntry(raw[i]) # <<>>}

\* C11 as stated: two raw samples of different call sites (filename, func_name, line_num)
\* that both pass the filters get different keys, so the TimingMap holds one entry per
\* retained sample and the record of no call site is overwritten by another's.
C11_KeyUniquePerCallSite ==
    pc = "extracted" =>
        /\ \A i, j \in Retained :
              i # j => SampleEntry(raw[i])[1].key # SampleEntry(raw[j])[1].key
        /\ Len(timings) = Cardinality(Retained)
        /\ \A i \in Retained :
              \E k \in 1..Len(timings) : timings[k] = SampleEntry(raw[i])[1]

=============================================================================
